---- MODULE Spec2Model ----
(***************************************************************************)
(* Verification model of the quantum-bits-python repository:               *)
(*   - HairColorEnigma        (src/experiments/hair_color_enigma.py)       *)
(*   - SuccessRate / Analysis (src/qward/analysis/)                        *)
(*   - BaseValidator          (src/qward/validators/base_validator.py)     *)
(* Python lists are functions over 0..n-1 so that the source's indices are *)
(* kept.  An attribute that may be None is None (<<>>) or Some(v) (<<v>>). *)
(* Floating-point quotients a/b are kept as the exact pair <<a, b>>.       *)
(***************************************************************************)
EXTENDS Integers, Sequences, FiniteSets, TLC

\* ---------------------------------------------------------------- bounds
MaxPeople == 3
MaxTrials == 2
MaxAnalyzers == 2
MaxJobs == 3
MaxShots == 2
MaxRows == 3
MaxJobCount == 2
MaxMergeCount == 5
MaxCompared == 4
RateSteps == 20
MaxListed == 5
MaxMeasured == 4
MaxTabled == 2
MaxTableCount == 2

\* rows an analyzer fed by the harness may hold: one full run
MaxHistory == MaxJobs

\* ------------------------------------------------------ program constants
\* def __init__(self, num_people: int = 4)
DefaultPeople == 4

\* ---------------------------------------------------------------- values
None == <<>>
Some(x) == <<x>>
Bits == {0, 1}
Configurations(n) == [0..(n - 1) -> Bits]

VARIABLES
    num_people,            \* HairColorEnigma.num_people
    hair_colors,           \* HairColorEnigma.hair_colors   (None | Some(list))
    guesses,               \* HairColorEnigma.guesses       (None | Some(list))
    results,               \* HairColorEnigma.results       (None | Some(list))
    correct_counts,        \* run_multiple_simulations: local correct_counts
    first_person_correct,  \* run_multiple_simulations: local first_person_correct
    trial,                 \* run_multiple_simulations: trials completed so far
    num_trials,            \* run_multiple_simulations: argument num_trials
    stats,                 \* run_multiple_simulations: returned dict (None | Some)
    epc,                   \* "ready" | "running" (inside run_multiple_simulations)
    err                    \* exception raised by the last call, or "none"

enigma_vars == <<num_people, hair_colors, guesses, results, correct_counts,
                 first_person_correct, trial, num_trials, stats, epc, err>>

VARIABLES
    results_df,            \* Analysis.results_df of every analyzer object (rows)
    success_criteria,      \* SuccessRate.success_criteria of every analyzer object
    ingest_criteria,       \* history: the criterion installed when each row was added
    counts_obj,            \* identity of the dict in each row's 'counts' cell
    sim_obj,               \* identity of the dict sim_results["counts"] (0: none)
    analyzers,             \* BaseValidator.analyzers (list of analyzer objects)
    sim_results,           \* run_simulation: local sim_results["counts"] (None | Some)
    job_id,                \* run_simulation: next job_id of the loop
    num_jobs,              \* run_simulation: argument num_jobs
    shots_per_job,         \* run_simulation: argument shots_per_job
    sim_calls,             \* history: calls of _simulate made by the current run
    df_at_start,           \* history: results_df when the current run started
    hpc,                   \* last call: "idle" | "loop" | "returned" | "raised"
    ret,                   \* value returned by the last call (None | Some)
    herr                   \* exception raised by the last call, or "none"

validator_vars == <<results_df, success_criteria, ingest_criteria, counts_obj,
                    sim_obj, analyzers,
                    sim_results, job_id, num_jobs, shots_per_job, sim_calls,
                    df_at_start, hpc, ret, herr>>

VARIABLES
    merge_x,               \* run_simulation: sim_results["counts"] before a merge
    merge_y,               \* run_simulation: job_result["counts"] of the job merged
    merge_xy               \* the dict the comprehension builds (None | Some)

VARIABLES
    cmp_num_people,        \* compare_results: argument num_people
    classical_all,         \* compare_results: local classical_all
    quantum_all,           \* compare_results: local quantum_all
    cmp_out                \* what compare_results worked out (None | Some)

compare_vars == <<cmp_num_people, classical_all, quantum_all, cmp_out>>

VARIABLES
    q_num_people,          \* QuantumHairColorEnigma.num_people
    hair_colors_list,      \* print_state_analysis / explain_strategy: the colours given
    psa_guesses,           \* print_state_analysis: local guesses (None | Some)
    explained              \* explain_strategy: its locals at the end (None | Some)

documented_vars == <<q_num_people, hair_colors_list, psa_guesses, explained>>

VARIABLES
    qubits,                \* the basis state the circuit has reached, per qubit
    gate_pc,               \* gates of the circuit applied so far
    measured               \* the bitstring the measurement yields (None | Some)

circuit_vars == <<qubits, gate_pc, measured>>

VARIABLES
    ibm_pc,                \* run_on_ibm: "idle" | "submit" | "polling" | "done" | "fed" | "returned"
    polling_count,         \* run_on_ibm: local polling_count
    elapsed,               \* run_on_ibm: time.time() - execution_start_time, in seconds
    ibm_counts,            \* run_on_ibm: local counts (None | Some)
    ibm_ret,               \* run_on_ibm: the dict returned by the last call (None | Some)
    ibm_df_at_start        \* history: results_df when the current run_on_ibm call started

ibm_vars == <<ibm_pc, polling_count, elapsed, ibm_counts, ibm_ret, ibm_df_at_start>>

VARIABLES
    counts_dict,           \* a table of measured bitstrings: the argument counts_dict
    success_rate,          \* SuccessRate.analyze: the rate of the job (None | Some)
    distribution,          \* analyze_correct_distribution: returned dict (None | Some)
    per_person             \* analyze_per_person_success: returned dict (None | Some)

table_vars == <<counts_dict, success_rate, distribution, per_person>>

\* state of the operations examined on their own, which the actions of the
\* enigma, the analyzer and run_simulation leave alone
pure_vars == <<merge_x, merge_y, merge_xy, compare_vars, documented_vars,
               circuit_vars, ibm_vars, table_vars>>

vars == <<enigma_vars, validator_vars, pure_vars>>

\* ------------------------------------------------- HairColorEnigma: pure
RECURSIVE SumRange(_, _, _)
SumRange(f, lo, hi) == IF lo > hi THEN 0 ELSE f[lo] + SumRange(f, lo + 1, hi)

\* a slip: | where ^ is meant
Xor_or(a, b) == IF a + b > 0 THEN 1 ELSE 0

\* the ^ operator on bits
Xor(a, b) == (a + b) % 2

\* expected_parity ^= self.guesses[j] for j in range(lo, hi + 1)
RECURSIVE XorRange(_, _, _, _)
XorRange(acc, g, lo, hi) ==
    IF lo > hi THEN acc ELSE XorRange(Xor(acc, g[lo]), g, lo + 1, hi)

\* a slip of _what_person_sees: the slice starts at the person itself
what_person_sees_own(hc, n, person_idx) ==
    IF person_idx < n
    THEN [k \in 0..(n - 1 - person_idx) |-> hc[person_idx + k]]
    ELSE <<>>

\* self.hair_colors[person_idx+1:] if person_idx < self.num_people else []
what_person_sees(hc, n, person_idx) ==
    IF person_idx < n
    THEN [k \in 0..(n - 2 - person_idx) |-> hc[person_idx + 1 + k]]
    ELSE <<>>

\* sum(visible_colors) % 2
visible_parity(hc, n, i) ==
    LET visible_colors == what_person_sees(hc, n, i)
    IN  SumRange(visible_colors, 0, Cardinality(DOMAIN visible_colors) - 1) % 2

\* a first person that announces the parity it sees instead of a random bit
first_guess_parity(hc, n) == {visible_parity(hc, n, 0)}

\* the values random.randint(0, 1) can give to self.guesses[0]
first_guess(hc, n) == Bits

\* a slip: the inner loop starts at guesses[0], which is then folded in twice
RECURSIVE parity_loop_from_0(_, _, _, _)
parity_loop_from_0(g, hc, n, i) ==
    IF i >= n THEN g
    ELSE LET expected_parity ==
                 Xor(XorRange(g[0], g, 0, i - 1), visible_parity(hc, n, i))
         IN  parity_loop_from_0([g EXCEPT ![i] = expected_parity], hc, n, i + 1)

\* body of "for i in range(1, self.num_people)", from iteration i on
RECURSIVE parity_loop(_, _, _, _)
parity_loop(g, hc, n, i) ==
    IF i >= n THEN g
    ELSE LET expected_parity ==
                 Xor(XorRange(g[0], g, 1, i - 1), visible_parity(hc, n, i))
         IN  parity_loop([g EXCEPT ![i] = expected_parity], hc, n, i + 1)

\* the guesses simulate_parity_strategy builds when guesses[0] is g0 (n >= 1)
parity_guesses(hc, n, g0) ==
    parity_loop([[i \in 0..(n - 1) |-> 0] EXCEPT ![0] = g0], hc, n, 1)

\* [guess == color for guess, color in zip(self.guesses, self.hair_colors)]
parity_results(g, hc, n) == [i \in 0..(n - 1) |-> g[i] = hc[i]]

\* sum(results)
count_correct(r, n) == Cardinality({i \in 0..(n - 1) : r[i]})

\* --------------------------------------------- HairColorEnigma: actions
\* __init__(num_people): the three attributes start as None
EnigmaInitWith(people) ==
    /\ num_people \in people
    /\ hair_colors = None
    /\ guesses = None
    /\ results = None
    /\ correct_counts = None
    /\ first_person_correct = 0
    /\ trial = 0
    /\ num_trials = 0
    /\ stats = None
    /\ epc = "ready"
    /\ err = "none"

run_locals == <<correct_counts, first_person_correct, trial, num_trials, stats>>

reset ==
    /\ epc = "ready"
    /\ UNCHANGED <<validator_vars, pure_vars>>
    /\ hair_colors' = None
    /\ guesses' = None
    /\ results' = None
    /\ err' = "none"
    /\ UNCHANGED <<num_people, run_locals, epc>>

generate_random_hair_colors ==
    /\ epc = "ready"
    /\ UNCHANGED <<validator_vars, pure_vars>>
    /\ \E hc \in Configurations(num_people) : hair_colors' = Some(hc)
    /\ err' = "none"
    /\ UNCHANGED <<num_people, guesses, results, run_locals, epc>>

set_hair_colors ==
    /\ epc = "ready"
    /\ UNCHANGED <<validator_vars, pure_vars>>
    /\ \E colors \in Configurations(num_people) : hair_colors' = Some(colors)
    /\ err' = "none"
    /\ UNCHANGED <<num_people, guesses, results, run_locals, epc>>

\* set_hair_colors with len(colors) != self.num_people
set_hair_colors_bad_length ==
    /\ epc = "ready"
    /\ UNCHANGED <<validator_vars, pure_vars>>
    /\ \E len \in 0..MaxPeople : len # num_people
    /\ err' = "ValueError"
    /\ UNCHANGED <<num_people, hair_colors, guesses, results, run_locals, epc>>

\* the hair colours simulate_parity_strategy works on: generated when None
colours_for_run(hc) ==
    /\ hc \in Configurations(num_people)
    /\ hair_colors # None => hc = hair_colors[1]

simulate_parity_strategy ==
    /\ epc = "ready"
    /\ UNCHANGED <<validator_vars, pure_vars>>
    /\ num_people >= 1
    /\ \E hc \in Configurations(num_people) :
          /\ colours_for_run(hc)
          /\ \E g0 \in first_guess(hc, num_people) :
                LET g == parity_guesses(hc, num_people, g0)
                IN  /\ hair_colors' = Some(hc)
                    /\ guesses' = Some(g)
                    /\ results' = Some(parity_results(g, hc, num_people))
    /\ err' = "none"
    /\ UNCHANGED <<num_people, run_locals, epc>>

\* num_people = 0: self.guesses = [] and self.guesses[0] = ... raises
simulate_parity_strategy_empty ==
    /\ epc = "ready"
    /\ UNCHANGED <<validator_vars, pure_vars>>
    /\ num_people = 0
    /\ hair_colors' = Some(<<>>)
    /\ guesses' = Some(<<>>)
    /\ err' = "IndexError"
    /\ UNCHANGED <<num_people, results, run_locals, epc>>

\* run_multiple_simulations up to the loop
run_multiple_simulations_start ==
    /\ epc = "ready"
    /\ UNCHANGED <<validator_vars, pure_vars>>
    /\ \E t \in (-1)..MaxTrials : num_trials' = t
    /\ correct_counts' = Some([i \in 0..num_people |-> 0])
    /\ first_person_correct' = 0
    /\ trial' = 0
    /\ stats' = None
    /\ epc' = "running"
    /\ err' = "none"
    /\ UNCHANGED <<num_people, hair_colors, guesses, results>>

\* a slip: without self.reset() the strategy keeps the colours it finds
trial_colours_kept(n, current) ==
    IF current = None THEN Configurations(n) ELSE {current[1]}

\* self.reset(); self.generate_random_hair_colors(): the colours of a trial
\* are drawn anew whatever the object held before
trial_colours(n, current) == Configurations(n)

\* one iteration of "for _ in range(num_trials)"
run_multiple_simulations_trial ==
    /\ epc = "running"
    /\ UNCHANGED <<validator_vars, pure_vars>>
    /\ trial < num_trials
    /\ num_people >= 1
    /\ \E hc \in trial_colours(num_people, hair_colors) :
       \E g0 \in first_guess(hc, num_people) :
          LET g == parity_guesses(hc, num_people, g0)
              r == parity_results(g, hc, num_people)
              correct_count == count_correct(r, num_people)
          IN  /\ hair_colors' = Some(hc)
              /\ guesses' = Some(g)
              /\ results' = Some(r)
              /\ correct_counts' =
                    Some([correct_counts[1] EXCEPT ![correct_count] = @ + 1])
              /\ first_person_correct' =
                    IF r[0] THEN first_person_correct + 1
                    ELSE first_person_correct
    /\ trial' = trial + 1
    /\ UNCHANGED <<num_people, num_trials, stats, epc, err>>

\* an iteration with num_people = 0: simulate_parity_strategy raises
run_multiple_simulations_trial_empty ==
    /\ epc = "running"
    /\ UNCHANGED <<validator_vars, pure_vars>>
    /\ trial < num_trials
    /\ num_people = 0
    /\ hair_colors' = Some(<<>>)
    /\ guesses' = Some(<<>>)
    /\ results' = None
    /\ epc' = "ready"
    /\ err' = "IndexError"
    /\ UNCHANGED <<num_people, run_locals>>

\* after the loop: the statistics (x / num_trials kept as <<x, num_trials>>)
run_multiple_simulations_finish ==
    /\ epc = "running"
    /\ UNCHANGED <<validator_vars, pure_vars>>
    /\ trial >= num_trials
    /\ num_trials # 0
    /\ stats' = Some([
          num_people |-> num_people,
          num_trials |-> num_trials,
          avg_correct |->
             <<SumRange([i \in 0..num_people |-> i * correct_counts[1][i]],
                        0, num_people), num_trials>>,
          first_person_correct_pct |-> <<first_person_correct, num_trials>>,
          correct_distribution |->
             [i \in 0..num_people |-> <<correct_counts[1][i], num_trials>>]])
    /\ epc' = "ready"
    /\ UNCHANGED <<num_people, hair_colors, guesses, results, correct_counts,
                   first_person_correct, trial, num_trials, err>>

\* num_trials = 0: "/ num_trials" raises ZeroDivisionError
run_multiple_simulations_zero ==
    /\ epc = "running"
    /\ UNCHANGED <<validator_vars, pure_vars>>
    /\ trial >= num_trials
    /\ num_trials = 0
    /\ epc' = "ready"
    /\ err' = "ZeroDivisionError"
    /\ UNCHANGED <<num_people, hair_colors, guesses, results, run_locals>>

EnigmaNext ==
    \/ reset
    \/ generate_random_hair_colors
    \/ set_hair_colors
    \/ set_hair_colors_bad_length
    \/ simulate_parity_strategy
    \/ simulate_parity_strategy_empty
    \/ run_multiple_simulations_start
    \/ run_multiple_simulations_trial
    \/ run_multiple_simulations_trial_empty
    \/ run_multiple_simulations_finish
    \/ run_multiple_simulations_zero


\* ------------------------------------------------------ frequency tables
\* measurement outcomes of a one-bit circuit (the keys of a counts dict)
Keys == {"0", "1"}

\* the success predicates the repository installs
CriteriaNames == {"default", "flip_coin"}

\* self.success_criteria(state)
accepts(criteria, state) ==
    CASE criteria = "default" -> state = "0"
      [] criteria = "flip_coin" -> state = "1"

\* sum of t[k] for k in ks
RECURSIVE SumOver(_, _)
SumOver(t, ks) ==
    IF ks = {} THEN 0
    ELSE LET k == CHOOSE x \in ks : TRUE IN t[k] + SumOver(t, ks \ {k})

\* sum(counts.values())
total_of(counts) == SumOver(counts, DOMAIN counts)

\* counts.get(k, 0)
get(counts, k) == IF k \in DOMAIN counts THEN counts[k] ELSE 0

\* what _simulate(shots) can return: the observed outcomes, summing to shots
SourceTables(shots) ==
    {t \in UNION {[d -> 1..shots] : d \in SUBSET Keys} : total_of(t) = shots}

\* counts dicts a caller hands to add_results: also {} and {'0': 0}
DirectTables ==
    UNION {SourceTables(s) : s \in 1..MaxShots} \cup {<<>>, [k \in {"0"} |-> 0]}

\* --------------------------------------------------- exact quotients a/b
RECURSIVE GCD(_, _)
GCD(a, b) == IF b = 0 THEN a ELSE GCD(b, a % b)

\* a / b for a >= 0, b > 0, in lowest terms
Rat(a, b) == LET g == GCD(a, b) IN <<a \div g, b \div g>>
RatAdd(x, y) == Rat(x[1] * y[2] + y[1] * x[2], x[2] * y[2])
RatLeq(x, y) == x[1] * y[2] <= y[1] * x[2]
RatDivInt(x, n) == Rat(x[1], x[2] * n)

RECURSIVE RatSum(_, _)
RatSum(rs, n) == IF n = 0 THEN <<0, 1>> ELSE RatAdd(RatSum(rs, n - 1), rs[n])

Range(f) == {f[x] : x \in DOMAIN f}

np_mean(rs) == RatDivInt(RatSum(rs, Len(rs)), Len(rs))
np_min(rs) == CHOOSE r \in Range(rs) : \A q \in Range(rs) : RatLeq(r, q)
np_max(rs) == CHOOSE r \in Range(rs) : \A q \in Range(rs) : RatLeq(q, r)

\* a slip: the mean of the squares, the mean never subtracted
np_var_raw(rs) ==
    np_mean([j \in 1..Len(rs) |-> Rat(rs[j][1] * rs[j][1], rs[j][2] * rs[j][2])])

\* np.std(rs) squared: the mean of the squared deviations from the mean
np_var(rs) ==
    LET m == np_mean(rs)
        sq(r) == LET d == r[1] * m[2] - m[1] * r[2]
                 IN  Rat(d * d, (r[2] * m[2]) * (r[2] * m[2]))
    IN  np_mean([j \in 1..Len(rs) |-> sq(rs[j])])

\* ------------------------------------------------------ SuccessRate: pure
\* one iteration of "for counts in self.results_df['counts']"
job_rate(counts, criteria) ==
    LET total_shots == total_of(counts)
        successful_shots ==
            SumOver(counts, {state \in DOMAIN counts : accepts(criteria, state)})
    IN  IF total_shots > 0 THEN Rat(successful_shots, total_shots) ELSE Rat(0, 1)

\* a slip: the rates scored with target_value '0' instead of the criteria
success_rates_target(df, criteria) ==
    [j \in 1..Len(df) |-> job_rate(df[j].counts, "default")]

\* the list success_rates built by analyze
success_rates(df, criteria) ==
    [j \in 1..Len(df) |-> job_rate(df[j].counts, criteria)]

\* a slip: total_trials counting shots instead of rows
total_trials_shots(df) ==
    SumOver([j \in 1..Len(df) |-> total_of(df[j].counts)], 1..Len(df))

\* len(self.results_df)
total_trials(df) == Len(df)

\* the dict analyze returns (df not empty); std_success_rate is kept squared
analysis_of(df, criteria) ==
    LET rates == success_rates(df, criteria)
        n == Len(df)
    IN  [success_rates |-> rates,
         mean_success_rate |-> np_mean(rates),
         var_success_rate |-> np_var(rates),
         min_success_rate |-> np_min(rates),
         max_success_rate |-> np_max(rates),
         total_trials |-> total_trials(df),
         target_value |-> "0",
         average_counts |->
            [heads |-> Rat(SumOver([j \in 1..n |-> get(df[j].counts, "0")], 1..n), n),
             tails |-> Rat(SumOver([j \in 1..n |-> get(df[j].counts, "1")], 1..n), n)]]

\* --------------------------------------------------- SuccessRate: actions
\* the analyzer objects that exist (SuccessRate() instances)
AnalyzerIds == 1..MaxAnalyzers

\* an analyzer used on its own, outside any validator
Standalone == 1

run_state == <<sim_results, sim_obj, job_id, num_jobs, shots_per_job, sim_calls,
               df_at_start>>

\* the dict objects some row of some analyzer refers to
objects_in(co) == UNION {Range(co[a]) : a \in DOMAIN co}

\* the identity of a newly created dict: the first one not in use
new_object(in_use) == CHOOSE o \in 1..(Cardinality(in_use) + 1) : o \notin in_use

\* a call other than run_simulation: the locals of an earlier run are gone
no_run ==
    /\ sim_results' = None
    /\ sim_obj' = 0
    /\ job_id' = 0
    /\ num_jobs' = 0
    /\ shots_per_job' = 0
    /\ sim_calls' = 0
    /\ df_at_start' = [a \in DOMAIN results_df |-> <<>>]
    /\ hpc' = "idle"

\* SuccessRate.add_results(results), called by a client
add_results(a) ==
    /\ hpc # "loop"
    /\ UNCHANGED <<enigma_vars, pure_vars>>
    /\ Len(results_df[a]) < MaxRows
    /\ \E t \in DirectTables :
          results_df' = [results_df EXCEPT ![a] =
              Append(@, [counts |-> t, shots |-> total_of(t), job_id |-> Len(@)])]
    /\ ingest_criteria' = [ingest_criteria EXCEPT ![a] = Append(@, success_criteria[a])]
    /\ counts_obj' = [counts_obj EXCEPT ![a] =
                          Append(@, new_object(objects_in(counts_obj)))]
    /\ no_run
    /\ ret' = None
    /\ herr' = "none"
    /\ UNCHANGED <<success_criteria, analyzers>>

set_success_criteria(a) ==
    /\ hpc # "loop"
    /\ UNCHANGED <<enigma_vars, pure_vars>>
    /\ \E criteria \in CriteriaNames :
          success_criteria' = [success_criteria EXCEPT ![a] = criteria]
    /\ no_run
    /\ ret' = None
    /\ herr' = "none"
    /\ UNCHANGED <<results_df, ingest_criteria, counts_obj, analyzers>>

analyze(a) ==
    /\ hpc # "loop"
    /\ UNCHANGED <<enigma_vars, pure_vars>>
    /\ results_df[a] # <<>>
    /\ ret' = Some(analysis_of(results_df[a], success_criteria[a]))
    /\ no_run
    /\ herr' = "none"
    /\ UNCHANGED <<results_df, success_criteria, ingest_criteria, counts_obj, analyzers>>

\* analyze with self.results_df.empty
analyze_empty(a) ==
    /\ hpc # "loop"
    /\ UNCHANGED <<enigma_vars, pure_vars>>
    /\ results_df[a] = <<>>
    /\ ret' = None
    /\ no_run
    /\ herr' = "ValueError"
    /\ UNCHANGED <<results_df, success_criteria, ingest_criteria, counts_obj, analyzers>>

\* a slip: only the newest row is dropped
clear_results_last(a) ==
    /\ hpc # "loop"
    /\ UNCHANGED <<enigma_vars, pure_vars>>
    /\ results_df' = [results_df EXCEPT ![a] = SubSeq(@, 1, Len(@) - 1)]
    /\ ingest_criteria' = [ingest_criteria EXCEPT ![a] = SubSeq(@, 1, Len(@) - 1)]
    /\ counts_obj' = [counts_obj EXCEPT ![a] = SubSeq(@, 1, Len(@) - 1)]
    /\ no_run
    /\ ret' = None
    /\ herr' = "none"
    /\ UNCHANGED <<success_criteria, analyzers>>

\* Analysis.clear_results: self.results_df = pd.DataFrame()
clear_results(a) ==
    /\ hpc # "loop"
    /\ UNCHANGED <<enigma_vars, pure_vars>>
    /\ results_df' = [results_df EXCEPT ![a] = <<>>]
    /\ ingest_criteria' = [ingest_criteria EXCEPT ![a] = <<>>]
    /\ counts_obj' = [counts_obj EXCEPT ![a] = <<>>]
    /\ no_run
    /\ ret' = None
    /\ herr' = "none"
    /\ UNCHANGED <<success_criteria, analyzers>>

\* ------------------------------------------------- BaseValidator: actions
\* the analyzer objects in self.analyzers
registered == Range(analyzers)

\* BaseValidator.__init__ with fresh SuccessRate() objects beside it
ValidatorInit ==
    /\ results_df = [a \in AnalyzerIds |-> <<>>]
    /\ success_criteria = [a \in AnalyzerIds |-> "default"]
    /\ ingest_criteria = [a \in AnalyzerIds |-> <<>>]
    /\ counts_obj = [a \in AnalyzerIds |-> <<>>]
    /\ sim_obj = 0
    /\ analyzers = <<>>
    /\ sim_results = None
    /\ job_id = 0
    /\ num_jobs = 0
    /\ shots_per_job = 0
    /\ sim_calls = 0
    /\ df_at_start = [a \in AnalyzerIds |-> <<>>]
    /\ hpc = "idle"
    /\ ret = None
    /\ herr = "none"

\* what the validators' constructors do: success_analyzer = SuccessRate();
\* success_analyzer.set_success_criteria(...); self.add_analyzer(success_analyzer)
add_analyzer ==
    /\ hpc # "loop"
    /\ UNCHANGED <<enigma_vars, pure_vars>>
    /\ Len(analyzers) < MaxAnalyzers
    /\ LET success_analyzer == Len(analyzers) + 1
       IN  /\ \E criteria \in CriteriaNames :
                success_criteria' =
                    [success_criteria EXCEPT ![success_analyzer] = criteria]
           /\ analyzers' = Append(analyzers, success_analyzer)
    /\ no_run
    /\ ret' = None
    /\ herr' = "none"
    /\ UNCHANGED <<results_df, ingest_criteria, counts_obj>>

\* a slip: the first job of a run starts the analyzers' history anew
add_to_cleared_analyzers(df, regs, rec) ==
    [a \in AnalyzerIds |->
        IF a \in regs
        THEN IF rec.job_id = 0 THEN <<rec>> ELSE Append(df[a], rec)
        ELSE df[a]]

\* a slip: only the first analyzer of the list is fed
add_to_first_analyzer(df, regs, rec) ==
    [a \in AnalyzerIds |->
        IF a \in regs /\ a = analyzers[1] THEN Append(df[a], rec) ELSE df[a]]

\* "for analyzer in self.analyzers: analyzer.add_results({...})"
add_to_analyzers(df, regs, rec) ==
    [a \in AnalyzerIds |-> IF a \in regs THEN Append(df[a], rec) ELSE df[a]]

\* every analyzer's row refers to the one dict obj: {"counts": obj, ...}
share_object(co, regs, obj) ==
    [a \in AnalyzerIds |-> IF a \in regs THEN Append(co[a], obj) ELSE co[a]]

\* the criterion each fed analyzer had installed when the row arrived
note_ingest(ic, regs) ==
    [a \in AnalyzerIds |->
        IF a \in regs THEN Append(ic[a], success_criteria[a]) ELSE ic[a]]

\* a slip: the later job's count replaces the running count (dict.update)
merge_overwrite(a, b) ==
    [k \in DOMAIN a \cup DOMAIN b |-> IF k \in DOMAIN b THEN b[k] ELSE a[k]]

\* a slip: only the keys of the running table are kept
merge_left_keys(a, b) == [k \in DOMAIN a |-> a[k] + get(b, k)]

\* {k: a.get(k, 0) + b.get(k, 0) for k in set(a) | set(b)}
merge(a, b) == [k \in DOMAIN a \cup DOMAIN b |-> get(a, k) + get(b, k)]

Max(x, y) == IF x >= y THEN x ELSE y

\* run_simulation: the first _simulate call returns and job 0 is handed out
run_simulation_start ==
    /\ hpc # "loop"
    /\ UNCHANGED <<enigma_vars, pure_vars>>
    /\ \E jobs \in 0..MaxJobs, shots \in 1..MaxShots :
          /\ \A a \in registered : Len(results_df[a]) + Max(jobs, 1) <= MaxHistory
          /\ num_jobs' = jobs
          /\ shots_per_job' = shots
          /\ \E counts \in SourceTables(shots) :
                /\ sim_results' = Some(counts)
                /\ results_df' = add_to_analyzers(results_df, registered,
                       [counts |-> counts, shots |-> shots, job_id |-> 0])
    /\ ingest_criteria' = note_ingest(ingest_criteria, registered)
    /\ LET first == new_object(objects_in(counts_obj))
       IN  /\ sim_obj' = first
           /\ counts_obj' = share_object(counts_obj, registered, first)
    /\ df_at_start' = results_df
    /\ sim_calls' = 1
    /\ job_id' = 1
    /\ hpc' = "loop"
    /\ ret' = None
    /\ herr' = "none"
    /\ UNCHANGED <<success_criteria, analyzers>>

\* run_simulation: the first _simulate call raises
run_simulation_start_fail ==
    /\ hpc # "loop"
    /\ UNCHANGED <<enigma_vars, pure_vars>>
    /\ \E jobs \in 0..MaxJobs, shots \in 1..MaxShots :
          /\ \A a \in registered : Len(results_df[a]) + Max(jobs, 1) <= MaxHistory
          /\ num_jobs' = jobs
          /\ shots_per_job' = shots
    /\ sim_results' = None
    /\ sim_obj' = 0
    /\ df_at_start' = results_df
    /\ sim_calls' = 1
    /\ job_id' = 0
    /\ hpc' = "raised"
    /\ ret' = None
    /\ herr' = "SourceFailure"
    /\ UNCHANGED <<results_df, success_criteria, ingest_criteria, counts_obj, analyzers>>

\* the loop "for job_id in range(1, num_jobs)" has an iteration left
more_jobs == num_jobs > 1 /\ job_id < num_jobs

\* one iteration of the loop: _simulate returns, the job is handed out and merged
run_simulation_job ==
    /\ hpc = "loop"
    /\ UNCHANGED <<enigma_vars, pure_vars>>
    /\ more_jobs
    /\ \E counts \in SourceTables(shots_per_job) :
          /\ results_df' = add_to_analyzers(results_df, registered,
                 [counts |-> counts, shots |-> shots_per_job, job_id |-> job_id])
          /\ sim_results' = Some(merge(sim_results[1], counts))
    /\ ingest_criteria' = note_ingest(ingest_criteria, registered)
    /\ LET job_result == new_object(objects_in(counts_obj) \cup {sim_obj})
       IN  /\ counts_obj' = share_object(counts_obj, registered, job_result)
           /\ sim_obj' = new_object(objects_in(counts_obj) \cup {sim_obj, job_result})
    /\ sim_calls' = sim_calls + 1
    /\ job_id' = job_id + 1
    /\ UNCHANGED <<success_criteria, analyzers, num_jobs, shots_per_job,
                   df_at_start, hpc, ret, herr>>

\* one iteration of the loop: _simulate raises and the exception propagates
run_simulation_job_fail ==
    /\ hpc = "loop"
    /\ UNCHANGED <<enigma_vars, pure_vars>>
    /\ more_jobs
    /\ sim_calls' = sim_calls + 1
    /\ hpc' = "raised"
    /\ ret' = None
    /\ herr' = "SourceFailure"
    /\ UNCHANGED <<results_df, success_criteria, ingest_criteria, counts_obj, analyzers,
                   sim_results, sim_obj, job_id, num_jobs, shots_per_job,
                   df_at_start>>

\* after the loop: the dict run_simulation returns
run_simulation_return ==
    /\ hpc = "loop"
    /\ UNCHANGED <<enigma_vars, pure_vars>>
    /\ ~more_jobs
    /\ ret' = Some([
          results_metrics |-> [counts |-> sim_results[1], shots |-> shots_per_job],
          timing_info |-> [num_jobs |-> num_jobs,
                           shots_per_job |-> shots_per_job,
                           total_shots |-> num_jobs * shots_per_job]])
    /\ hpc' = "returned"
    /\ UNCHANGED <<results_df, success_criteria, ingest_criteria, counts_obj, analyzers,
                   run_state, herr>>

\* ------------------------------------------ the parity strategy as documented
Colours == {"orange", "indigo"}

\* binary_colors.append("1") for indigo, "0" for orange
binary_colour(colour) == IF colour = "indigo" THEN "1" ELSE "0"

\* int(c) and str(b) on the characters '0' and '1'
int_of(c) == IF c = "1" THEN 1 ELSE 0
str_of(b) == IF b = 1 THEN "1" ELSE "0"

\* "for i in range(lo, hi + 1): acc ^= int(chars[i])"
RECURSIVE xor_chars(_, _, _, _)
xor_chars(acc, chars, lo, hi) ==
    IF lo > hi THEN acc ELSE xor_chars(Xor(acc, int_of(chars[lo])), chars, lo + 1, hi)

\* a slip: the first person also counts its own colour
psa_first_guess_all(hc, n) == xor_chars(0, hc, 0, n - 1)

\* "First person calculates parity of all other people"
psa_first_guess(hc, n) == xor_chars(0, hc, 1, n - 1)

\* "Remaining people": for person in range(3, self.num_people - 1)
RECURSIVE psa_remaining(_, _, _, _)
psa_remaining(g, hc, n, person) ==
    IF person >= n - 1 THEN g
    ELSE LET current_guess ==
                 xor_chars(xor_chars(0, g, 0, person - 1), hc, person + 1, n - 1)
         IN  psa_remaining([g EXCEPT ![person] = str_of(current_guess)], hc, n, person + 1)

\* print_state_analysis: the guesses built from hair_colors (n >= 1)
psa_parity_guesses(hc, n) ==
    LET g0 == [[i \in 0..(n - 1) |-> "0"] EXCEPT ![0] = str_of(psa_first_guess(hc, n))]
        g1 == IF n > 1
              THEN [g0 EXCEPT ![1] = str_of(xor_chars(int_of(g0[0]), hc, 2, n - 1))]
              ELSE g0
        g2 == IF n > 2
              THEN [g1 EXCEPT ![2] =
                       str_of(xor_chars(Xor(int_of(g1[0]), int_of(g1[1])), hc, 3, n - 1))]
              ELSE g1
        g3 == psa_remaining(g2, hc, n, 3)
    IN  IF n > 1
        THEN [g3 EXCEPT ![n - 1] = str_of(xor_chars(0, g3, 0, n - 2))]
        ELSE g3

\* no documented strategy is being worked through
DocumentedIdle ==
    /\ q_num_people = DefaultPeople
    /\ hair_colors_list = <<>>
    /\ psa_guesses = None
    /\ explained = None

DocumentedInit ==
    /\ q_num_people \in 1..MaxListed
    /\ hair_colors_list \in [0..(q_num_people - 1) -> Colours]
    /\ psa_guesses = None
    /\ explained = None

\* hair_colors = "".join(binary_colors)
binary_colors == [i \in DOMAIN hair_colors_list |-> binary_colour(hair_colors_list[i])]

\* print_state_analysis(hair_colors_list): up to the guesses
print_state_analysis ==
    /\ psa_guesses = None
    /\ psa_guesses' = Some(psa_parity_guesses(binary_colors, q_num_people))
    /\ UNCHANGED <<q_num_people, hair_colors_list, explained>>
    /\ UNCHANGED <<enigma_vars, validator_vars, merge_x, merge_y, merge_xy, compare_vars,
                   circuit_vars, ibm_vars,
                   table_vars>>

\* explain_strategy(hair_colors) of the notebook: Alice, Bob, Charlie, Dahlia
explain_strategy ==
    /\ explained = None
    /\ q_num_people = 4
    /\ LET hc == [i \in 0..3 |-> int_of(binary_colors[i])]
           parity == (hc[1] + hc[2] + hc[3]) % 2
           bob_guess == IF parity = (hc[2] + hc[3]) % 2 THEN 0 ELSE 1
           charlie_guess == Xor(Xor(parity, bob_guess), hc[3] % 2)
           dahlia_guess == Xor(Xor(parity, bob_guess), charlie_guess)
           said == (0 :> parity @@ 1 :> bob_guess @@ 2 :> charlie_guess @@ 3 :> dahlia_guess)
       IN  explained' = Some([
               guesses |-> said,
               correct_count |-> Cardinality({i \in 0..3 : said[i] = hc[i]})])
    /\ UNCHANGED <<q_num_people, hair_colors_list, psa_guesses>>
    /\ UNCHANGED <<enigma_vars, validator_vars, merge_x, merge_y, merge_xy, compare_vars,
                   circuit_vars, ibm_vars,
                   table_vars>>

\* ------------------------------------------ QuantumHairColorEnigma: circuit
\* "for i in range(lo, hi + 1): self.cx(i + shift, target)"
cx_run(lo, hi, shift, target) ==
    [k \in 1..(IF hi >= lo THEN hi - lo + 1 ELSE 0) |-> <<"cx", lo + k - 1 + shift, target>>]

\* the block of one person >= 1: the previous guesses, the colours behind and
\* the person's own colour are folded into the person's guess qubit
person_gates(n, person) ==
    cx_run(0, person - 1, n, n + person)
        \o cx_run(person + 1, n - 1, 0, n + person)
        \o <<(<<"cx", person, n + person>>)>>

RECURSIVE persons_gates(_, _)
persons_gates(n, person) ==
    IF person >= n THEN <<>> ELSE person_gates(n, person) \o persons_gates(n, person + 1)

\* _setup_circuit: the gates in the order they are appended (barriers left out)
setup_circuit(n) ==
    [k \in 1..(n + 1) |-> <<"h", k - 1>>] \o persons_gates(n, 1)

\* no circuit is being run
CircuitIdle ==
    /\ qubits = <<>>
    /\ gate_pc = 0
    /\ measured = None

\* all qubits start in |0>
CircuitInit ==
    /\ q_num_people \in 1..MaxMeasured
    /\ hair_colors_list = <<>>
    /\ psa_guesses = None
    /\ explained = None
    /\ qubits = [q \in 0..(2 * q_num_people - 1) |-> 0]
    /\ gate_pc = 0
    /\ measured = None

circuit_frame ==
    UNCHANGED <<enigma_vars, validator_vars, merge_x, merge_y, merge_xy, compare_vars,
                documented_vars, ibm_vars,
                   table_vars>>

\* a Hadamard on a qubit in |0>: either value is measured later
apply_h ==
    /\ measured = None
    /\ gate_pc < Len(setup_circuit(q_num_people))
    /\ setup_circuit(q_num_people)[gate_pc + 1][1] = "h"
    /\ \E b \in Bits :
          qubits' = [qubits EXCEPT ![setup_circuit(q_num_people)[gate_pc + 1][2]] = b]
    /\ gate_pc' = gate_pc + 1
    /\ UNCHANGED measured
    /\ circuit_frame

\* cx(control, target): the target is flipped when the control is 1
apply_cx ==
    /\ measured = None
    /\ gate_pc < Len(setup_circuit(q_num_people))
    /\ LET gate == setup_circuit(q_num_people)[gate_pc + 1]
       IN  /\ gate[1] = "cx"
           /\ qubits' = [qubits EXCEPT ![gate[3]] = Xor(@, qubits[gate[2]])]
    /\ gate_pc' = gate_pc + 1
    /\ UNCHANGED measured
    /\ circuit_frame

\* measure(i, i) for every qubit: clbit 0 is the rightmost character
measure ==
    /\ measured = None
    /\ gate_pc = Len(setup_circuit(q_num_people))
    /\ measured' = Some([k \in 1..(2 * q_num_people) |->
                            str_of(qubits[2 * q_num_people - k])])
    /\ UNCHANGED <<qubits, gate_pc>>
    /\ circuit_frame

\* state[::-1]
reversed(state) == [k \in 1..Len(state) |-> state[Len(state) + 1 - k]]

\* reversed_bits[:num_people] and reversed_bits[num_people:num_people*2], by person
state_hair_colors(state, n) == [i \in 0..(n - 1) |-> reversed(state)[i + 1]]
state_guesses(state, n) == [i \in 0..(n - 1) |-> reversed(state)[n + i + 1]]

\* sum(1 for i in range(num_people) if hair_colors[i] == guesses[i])
state_correct_count(state, n) ==
    Cardinality({i \in 0..(n - 1) : state_hair_colors(state, n)[i] = state_guesses(state, n)[i]})

\* ------------------------------------------------ BaseValidator.run_on_ibm
\* timeout = 600 and polling_interval = 5 (seconds)
Timeout == 600
PollingInterval == 5

\* what job.status() can answer
JobStatuses == {"QUEUED", "RUNNING", "DONE", "ERROR", "CANCELLED"}

\* no call of run_on_ibm has been made
IbmIdle ==
    /\ ibm_pc = "idle"
    /\ polling_count = 0
    /\ elapsed = 0
    /\ ibm_counts = None
    /\ ibm_ret = None
    /\ ibm_df_at_start = [a \in AnalyzerIds |-> <<>>]

ibm_frame ==
    UNCHANGED <<enigma_vars, merge_x, merge_y, merge_xy, compare_vars, documented_vars,
                circuit_vars, table_vars, success_criteria, analyzers, run_state, hpc, ret, herr>>

\* add_analyzer(SuccessRate with its criteria) between two calls of run_on_ibm
ibm_add_analyzer ==
    /\ ibm_pc \in {"idle", "returned"}
    /\ Len(analyzers) < MaxAnalyzers
    /\ LET success_analyzer == Len(analyzers) + 1
       IN  /\ \E criteria \in CriteriaNames :
                success_criteria' =
                    [success_criteria EXCEPT ![success_analyzer] = criteria]
           /\ analyzers' = Append(analyzers, success_analyzer)
    /\ ibm_pc' = "idle"
    /\ ibm_ret' = None
    /\ UNCHANGED <<polling_count, elapsed, ibm_counts, ibm_df_at_start>>
    /\ UNCHANGED <<results_df, ingest_criteria, counts_obj>>
    /\ UNCHANGED <<enigma_vars, merge_x, merge_y, merge_xy, compare_vars, documented_vars,
                   circuit_vars, table_vars, run_state, hpc, ret, herr>>

\* run_on_ibm(channel, token) with a token at hand: up to the account set-up
run_on_ibm_start ==
    /\ ibm_pc \in {"idle", "returned"}
    /\ \A a \in registered : Len(results_df[a]) < MaxHistory
    /\ ibm_pc' = "submit"
    /\ polling_count' = 0
    /\ elapsed' = 0
    /\ ibm_counts' = None
    /\ ibm_ret' = None
    /\ ibm_df_at_start' = results_df
    /\ UNCHANGED <<results_df, ingest_criteria, counts_obj>>
    /\ ibm_frame

\* "if not token: raise ValueError(...)", caught by the handler
run_on_ibm_no_token ==
    /\ ibm_pc \in {"idle", "returned"}
    /\ ibm_pc' = "returned"
    /\ polling_count' = 0
    /\ elapsed' = 0
    /\ ibm_counts' = None
    /\ ibm_ret' = Some([status |-> "error"])
    /\ ibm_df_at_start' = results_df
    /\ UNCHANGED <<results_df, ingest_criteria, counts_obj>>
    /\ ibm_frame

\* service, backend, pass manager, sampler.run, job.job_id(), job.status()
run_on_ibm_submit ==
    /\ ibm_pc = "submit"
    /\ ibm_pc' = "polling"
    /\ UNCHANGED <<polling_count, elapsed, ibm_counts, ibm_ret, ibm_df_at_start>>
    /\ UNCHANGED <<results_df, ingest_criteria, counts_obj>>
    /\ ibm_frame

\* one iteration of the while loop: job.status() answers
run_on_ibm_poll ==
    /\ ibm_pc = "polling"
    /\ elapsed < Timeout
    /\ polling_count' = polling_count + 1
    /\ \E status \in JobStatuses :
          IF status = "DONE"
          THEN /\ ibm_pc' = "done"
               /\ UNCHANGED <<elapsed, ibm_ret>>
          ELSE IF status # "RUNNING" /\ status # "QUEUED"
          THEN /\ ibm_pc' = "returned"
               /\ ibm_ret' = Some([status |-> "error"])
               /\ UNCHANGED elapsed
          ELSE /\ elapsed' = elapsed + PollingInterval
               /\ UNCHANGED <<ibm_pc, ibm_ret>>
    /\ UNCHANGED <<ibm_counts, ibm_df_at_start>>
    /\ UNCHANGED <<results_df, ingest_criteria, counts_obj>>
    /\ ibm_frame

\* "Handle timeout": the while condition is false
run_on_ibm_timeout ==
    /\ ibm_pc = "polling"
    /\ elapsed >= Timeout
    /\ ibm_pc' = "returned"
    /\ ibm_ret' = Some([status |-> "pending"])
    /\ UNCHANGED <<polling_count, elapsed, ibm_counts, ibm_df_at_start>>
    /\ UNCHANGED <<results_df, ingest_criteria, counts_obj>>
    /\ ibm_frame

\* status DONE: job.result(), get_counts(), the histogram, then
\* "for analyzer in self.analyzers: analyzer.add_results({"counts": counts})"
run_on_ibm_feed ==
    /\ ibm_pc = "done"
    /\ \E counts \in SourceTables(1) :
          /\ ibm_counts' = Some(counts)
          /\ results_df' = [a \in AnalyzerIds |->
                IF a \in registered THEN Append(results_df[a], [counts |-> counts])
                ELSE results_df[a]]
    /\ ingest_criteria' = note_ingest(ingest_criteria, registered)
    /\ counts_obj' = share_object(counts_obj, registered,
                                  new_object(objects_in(counts_obj)))
    /\ ibm_pc' = "fed"
    /\ UNCHANGED <<polling_count, elapsed, ibm_ret, ibm_df_at_start>>
    /\ ibm_frame

\* timing_info and the returned dict with "status": "completed"
run_on_ibm_completed ==
    /\ ibm_pc = "fed"
    /\ ibm_pc' = "returned"
    /\ ibm_ret' = Some([status |-> "completed", counts |-> ibm_counts[1]])
    /\ UNCHANGED <<polling_count, elapsed, ibm_counts, ibm_df_at_start>>
    /\ UNCHANGED <<results_df, ingest_criteria, counts_obj>>
    /\ ibm_frame

\* a call made inside the try block raises (the service, the backend, the
\* job, the histogram, backend.configuration() of the returned dict):
\* "except Exception as e" returns the dict with "status": "error"
run_on_ibm_raise ==
    /\ ibm_pc \in {"submit", "polling", "done", "fed"}
    /\ ibm_pc' = "returned"
    /\ ibm_ret' = Some([status |-> "error"])
    /\ UNCHANGED <<polling_count, elapsed, ibm_counts, ibm_df_at_start>>
    /\ UNCHANGED <<results_df, ingest_criteria, counts_obj>>
    /\ ibm_frame

\* --------------------------- QuantumHairColorEnigma: tables of bitstrings
\* measured states of n people: 2n characters, clbit 0 rightmost
BitStrings(n) == [1..(2 * n) -> {"0", "1"}]

\* sum(counts_dict.values())
table_total(counts) == SumOver(counts, DOMAIN counts)

\* the closure success_criteria(state) of QuantumHairColorEnigma.__init__
hair_success_criteria(state, n) ==
    LET reversed_state == [k \in 1..Len(state) |-> state[Len(state) + 1 - k]]
        hc == [i \in 0..(n - 1) |-> reversed_state[i + 1]]
        gs == [i \in 0..(n - 1) |-> reversed_state[n + i + 1]]
        correct_count == Cardinality({i \in 0..(n - 1) : hc[i] = gs[i]})
    IN  correct_count = n

\* SuccessRate.analyze, one job: successful_shots / total_shots if total_shots > 0 else 0
hair_job_rate(counts, n) ==
    LET total_shots == table_total(counts)
        successful_shots ==
            SumOver(counts, {state \in DOMAIN counts : hair_success_criteria(state, n)})
    IN  IF total_shots > 0 THEN Rat(successful_shots, total_shots) ELSE Rat(0, 1)

\* a slip: the counts of the buckets are returned, never divided by the total
analyze_correct_distribution_counts(counts, n) ==
    LET total_shots == table_total(counts)
        bucket(k) == SumOver(counts,
                        {state \in DOMAIN counts : state_correct_count(state, n) = k})
    IN  IF total_shots = 0 THEN [i \in 0..n |-> <<0, 1>>]
        ELSE [k \in 0..n |-> Rat(bucket(k), 1)]

\* analyze_correct_distribution(counts_dict)
analyze_correct_distribution_of(counts, n) ==
    LET total_shots == table_total(counts)
        bucket(k) == SumOver(counts,
                        {state \in DOMAIN counts : state_correct_count(state, n) = k})
    IN  IF total_shots = 0 THEN [i \in 0..n |-> <<0, 1>>]
        ELSE [k \in 0..n |-> Rat(bucket(k), total_shots)]

\* analyze_per_person_success(counts_dict)
analyze_per_person_success_of(counts, n) ==
    LET total_shots == table_total(counts)
        per_person_correct ==
            [i \in 0..(n - 1) |->
                SumOver(counts, {state \in DOMAIN counts :
                    state_hair_colors(state, n)[i] = state_guesses(state, n)[i]})]
        others_correct == IF n > 1 THEN SumRange(per_person_correct, 1, n - 1) ELSE 0
        others_total == IF n > 1 THEN total_shots * (n - 1) ELSE 0
    IN  IF total_shots = 0
        THEN [per_person_correct |-> [i \in 0..(n - 1) |-> 0],
              per_person_correct_pct |-> [i \in 0..(n - 1) |-> <<0, 1>>],
              first_person_correct_pct |-> <<0, 1>>,
              others_correct_pct |-> <<0, 1>>]
        ELSE [per_person_correct |-> per_person_correct,
              per_person_correct_pct |->
                  [i \in 0..(n - 1) |-> Rat(per_person_correct[i], total_shots)],
              first_person_correct_pct |->
                  IF n > 0 THEN Rat(per_person_correct[0], total_shots) ELSE <<0, 1>>,
              others_correct_pct |->
                  IF others_total > 0 THEN Rat(others_correct, others_total) ELSE <<0, 1>>]

\* no table is being analysed
TableIdle ==
    /\ counts_dict = <<>>
    /\ success_rate = None
    /\ distribution = None
    /\ per_person = None

\* tables of at most two measured states, counts 0..MaxTableCount
Tables(n) ==
    UNION {[d -> 0..MaxTableCount] :
              d \in {x \in SUBSET BitStrings(n) : Cardinality(x) <= 2}}

TableInit ==
    /\ q_num_people \in 1..MaxTabled
    /\ hair_colors_list = <<>>
    /\ psa_guesses = None
    /\ explained = None
    /\ counts_dict \in Tables(q_num_people)
    /\ success_rate = None
    /\ distribution = None
    /\ per_person = None

table_frame ==
    UNCHANGED <<enigma_vars, validator_vars, merge_x, merge_y, merge_xy, compare_vars,
                documented_vars, circuit_vars, ibm_vars, counts_dict>>

\* the SuccessRate analyzer of the enigma scores the table as one job
success_rate_analyze ==
    /\ success_rate = None
    /\ success_rate' = Some(hair_job_rate(counts_dict, q_num_people))
    /\ UNCHANGED <<distribution, per_person>>
    /\ table_frame

analyze_correct_distribution ==
    /\ distribution = None
    /\ distribution' = Some(analyze_correct_distribution_of(counts_dict, q_num_people))
    /\ UNCHANGED <<success_rate, per_person>>
    /\ table_frame

analyze_per_person_success ==
    /\ per_person = None
    /\ per_person' = Some(analyze_per_person_success_of(counts_dict, q_num_people))
    /\ UNCHANGED <<success_rate, distribution>>
    /\ table_frame

\* ------------------------------------------------ the merge on its own
\* outcome keys of the tables merged on their own
MergeKeys == {"a", "b", "c"}

\* job tables: every observed key with a count of 1..MaxJobCount
MergeInputs == UNION {[d -> 1..MaxJobCount] : d \in SUBSET MergeKeys}

\* no pure computation is under way
PureInit ==
    /\ merge_x = <<>>
    /\ merge_y = <<>>
    /\ merge_xy = None
    /\ cmp_num_people = 1
    /\ classical_all = <<0, 1>>
    /\ quantum_all = <<0, 1>>
    /\ cmp_out = None
    /\ DocumentedIdle
    /\ CircuitIdle
    /\ IbmIdle
    /\ TableIdle

\* a running table and the table of the next job
MergeInit ==
    /\ merge_x \in MergeInputs
    /\ merge_y \in MergeInputs
    /\ merge_xy = None
    /\ cmp_num_people = 1
    /\ classical_all = <<0, 1>>
    /\ quantum_all = <<0, 1>>
    /\ cmp_out = None
    /\ DocumentedIdle
    /\ CircuitIdle
    /\ IbmIdle
    /\ TableIdle

\* sim_results["counts"] = {k: ... for k in set(...) | set(...)}
merge_tables ==
    /\ merge_xy = None
    /\ merge_xy' = Some(merge(merge_x, merge_y))
    /\ UNCHANGED <<merge_x, merge_y, enigma_vars, validator_vars, compare_vars,
                   documented_vars, circuit_vars, ibm_vars,
                   table_vars>>

\* the next iteration: the merged table is the running one, a new job arrives
merge_next_job ==
    /\ merge_xy # None
    /\ merge_x' = merge_xy[1]
    /\ \E counts \in MergeInputs :
          /\ \A k \in DOMAIN counts : get(merge_xy[1], k) + counts[k] <= MaxMergeCount
          /\ merge_y' = counts
    /\ merge_xy' = None
    /\ UNCHANGED <<enigma_vars, validator_vars, compare_vars, documented_vars,
                   circuit_vars, ibm_vars,
                   table_vars>>

\* --------------------------------------------------------- compare_results
RatLess(x, y) == x[1] * y[2] < y[1] * x[2]
RatSub(x, y) == Rat(x[1] * y[2] - y[1] * x[2], x[2] * y[2])
RatMul(x, y) == Rat(x[1] * y[1], x[2] * y[2])
RatAbs(x) == IF x[1] < 0 THEN <<0 - x[1], x[2]>> ELSE x

\* a slip: the exponent is num_people
theoretical_max_success_n(n) == Rat(1, 2 ^ n)

\* theoretical_max_success = 1 / (2 ** (num_people - 1))
theoretical_max_success(n) == Rat(1, 2 ^ (n - 1))

\* the dict literal {num_people: ..., num_people - 1: 1 - ...}
theoretical_dist(n) ==
    [i \in {n, n - 1} |->
        IF i = n THEN theoretical_max_success(n)
        ELSE RatSub(<<1, 1>>, theoretical_max_success(n))]

\* theoretical_dist.get(i, 0)
theoretical_prob(n, i) ==
    IF i \in DOMAIN theoretical_dist(n) THEN theoretical_dist(n)[i] ELSE <<0, 1>>

\* "Check quantum implementation performance": the branch taken
quantum_check(all, n) ==
    LET t == theoretical_max_success(n)
    IN  IF RatLess(RatAbs(RatSub(all, t)), <<2, 100>>) THEN "near_optimal"
        ELSE IF RatLess(all, RatMul(t, <<9, 10>>)) THEN "underperforming"
        ELSE IF RatLess(RatMul(t, <<2, 1>>), all) THEN "warning"
        ELSE "silent"

\* "Check classical implementation performance": the branch taken
classical_check(all, n) ==
    LET t == theoretical_max_success(n)
    IN  IF RatLess(RatMul(t, <<2, 1>>), all) THEN "warning"
        ELSE IF RatLess(RatAbs(RatSub(all, t)), <<2, 100>>) THEN "near_optimal"
        ELSE "silent"

\* observed rates: multiples of 1 / RateSteps between 0 and 1
Rates == {Rat(k, RateSteps) : k \in 0..RateSteps}

CompareInit ==
    /\ cmp_num_people \in 1..MaxCompared
    /\ classical_all \in Rates
    /\ quantum_all \in Rates
    /\ cmp_out = None

compare_results ==
    /\ cmp_out = None
    /\ cmp_out' = Some([
          theoretical_max_success |-> theoretical_max_success(cmp_num_people),
          theoretical_probs |->
             [i \in 0..cmp_num_people |-> theoretical_prob(cmp_num_people, i)],
          quantum |-> quantum_check(quantum_all, cmp_num_people),
          classical |-> classical_check(classical_all, cmp_num_people)])
    /\ UNCHANGED <<cmp_num_people, classical_all, quantum_all>>
    /\ UNCHANGED <<enigma_vars, validator_vars, merge_x, merge_y, merge_xy,
                   documented_vars, circuit_vars, ibm_vars,
                   table_vars>>

\* ---------------------------------------------------------- specifications
\* the validation harness with its registered analyzers
Init == EnigmaInitWith({DefaultPeople}) /\ ValidatorInit /\ PureInit

Next ==
    \/ add_analyzer
    \/ run_simulation_start
    \/ run_simulation_start_fail
    \/ run_simulation_job
    \/ run_simulation_job_fail
    \/ run_simulation_return

Spec == Init /\ [][Next]_vars

\* one SuccessRate analyzer driven directly by a client
AnalysisNext ==
    \/ add_results(Standalone)
    \/ set_success_criteria(Standalone)
    \/ analyze(Standalone)
    \/ analyze_empty(Standalone)
    \/ clear_results(Standalone)

SpecAnalysis == Init /\ [][AnalysisNext]_vars

\* the classical enigma
InitEnigma == EnigmaInitWith(0..MaxPeople) /\ ValidatorInit /\ PureInit

SpecEnigma == InitEnigma /\ [][EnigmaNext]_vars

\* the cumulative merge of run_simulation applied to arbitrary tables
InitMerge == EnigmaInitWith({DefaultPeople}) /\ ValidatorInit /\ MergeInit

MergeNext ==
    \/ merge_tables
    \/ merge_next_job

SpecMerge == InitMerge /\ [][MergeNext]_vars

\* compare_results applied to arbitrary observed rates
InitCompare ==
    /\ EnigmaInitWith({DefaultPeople})
    /\ ValidatorInit
    /\ merge_x = <<>> /\ merge_y = <<>> /\ merge_xy = None
    /\ CompareInit
    /\ DocumentedIdle
    /\ CircuitIdle
    /\ IbmIdle
    /\ TableIdle

CompareNext == compare_results

SpecCompare == InitCompare /\ [][CompareNext]_vars

\* the parity strategy as print_state_analysis and the notebook spell it out
InitDocumented ==
    /\ EnigmaInitWith({DefaultPeople})
    /\ ValidatorInit
    /\ merge_x = <<>> /\ merge_y = <<>> /\ merge_xy = None
    /\ cmp_num_people = 1 /\ classical_all = <<0, 1>> /\ quantum_all = <<0, 1>>
    /\ cmp_out = None
    /\ DocumentedInit
    /\ CircuitIdle
    /\ IbmIdle
    /\ TableIdle

DocumentedNext ==
    \/ print_state_analysis
    \/ explain_strategy

SpecDocumented == InitDocumented /\ [][DocumentedNext]_vars

\* the circuit of QuantumHairColorEnigma followed gate by gate to a measurement
InitCircuit ==
    /\ EnigmaInitWith({DefaultPeople})
    /\ ValidatorInit
    /\ merge_x = <<>> /\ merge_y = <<>> /\ merge_xy = None
    /\ cmp_num_people = 1 /\ classical_all = <<0, 1>> /\ quantum_all = <<0, 1>>
    /\ cmp_out = None
    /\ CircuitInit
    /\ IbmIdle
    /\ TableIdle

CircuitNext ==
    \/ apply_h
    \/ apply_cx
    \/ measure

SpecCircuit == InitCircuit /\ [][CircuitNext]_vars

\* the analyses of QuantumHairColorEnigma applied to arbitrary tables
InitTable ==
    /\ EnigmaInitWith({DefaultPeople})
    /\ ValidatorInit
    /\ merge_x = <<>> /\ merge_y = <<>> /\ merge_xy = None
    /\ cmp_num_people = 1 /\ classical_all = <<0, 1>> /\ quantum_all = <<0, 1>>
    /\ cmp_out = None
    /\ CircuitIdle
    /\ IbmIdle
    /\ TableInit

TableNext ==
    \/ success_rate_analyze
    \/ analyze_correct_distribution
    \/ analyze_per_person_success

SpecTable == InitTable /\ [][TableNext]_vars

\* run_on_ibm on a validator with registered analyzers
IbmNext ==
    \/ ibm_add_analyzer
    \/ run_on_ibm_start
    \/ run_on_ibm_no_token
    \/ run_on_ibm_submit
    \/ run_on_ibm_poll
    \/ run_on_ibm_timeout
    \/ run_on_ibm_feed
    \/ run_on_ibm_completed
    \/ run_on_ibm_raise

SpecIbm == Init /\ [][IbmNext]_vars

\* ------------------------------------------- properties: HairColorEnigma
\* simulate_parity_strategy has just filled guesses and results from hair_colors
SimulatedState ==
    /\ num_people >= 1
    /\ hair_colors # None /\ guesses # None /\ results # None
    /\ DOMAIN guesses[1] = 0..(num_people - 1)
    /\ results[1] = parity_results(guesses[1], hair_colors[1], num_people)

\* every (Configuration, first guess) pair a trial can draw, all equally likely
Outcomes(n) ==
    UNION {{<<hc, g0>> : g0 \in first_guess(hc, n)} : hc \in Configurations(n)}

guesses_of(o, n) == parity_guesses(o[1], n, o[2])
results_of(o, n) == parity_results(guesses_of(o, n), o[1], n)
OutcomesWith(n, correct) ==
    {o \in Outcomes(n) : count_correct(results_of(o, n), n) = correct}

RECURSIVE Pow2(_)
Pow2(k) == IF k <= 0 THEN 1 ELSE 2 * Pow2(k - 1)

\* C1: for N >= 2 the results simulate_parity_strategy returns have every
\* party 1..N-1 correct, whatever the Configuration and party 0's guess
C1_OthersAlwaysCorrect ==
    (num_people >= 2 /\ results # None) =>
        \A i \in 1..(num_people - 1) : results[1][i]

\* C2: for N >= 2, among all 2^N Configurations and both first guesses the
\* share with all N correct is 1/2^(N-1) and the share with exactly N-1
\* correct is 1 - 1/2^(N-1)
C2_BimodalFractions ==
    num_people >= 2 =>
        LET n == num_people
            all == Cardinality(OutcomesWith(n, n))
            almost == Cardinality(OutcomesWith(n, n - 1))
            total == Cardinality(Outcomes(n))
        IN  /\ all * Pow2(n - 1) = total
            /\ almost * Pow2(n - 1) = total * (Pow2(n - 1) - 1)

\* C3: for N >= 2 run_multiple_simulations increments no bucket of
\* correct_counts other than N-1 and N
C3_OnlyTopBuckets ==
    (num_people >= 2 /\ correct_counts # None) =>
        \A i \in 0..(num_people - 2) : correct_counts[1][i] = 0

\* a second run (h2, G2) agrees with the run in the state on what party i
\* may use: the colours at indices > i and the guesses at indices < i
AgreeFor(i, h2, G2) ==
    /\ \A j \in (i + 1)..(num_people - 1) : h2[j] = hair_colors[1][j]
    /\ \A j \in 0..(i - 1) : G2[j] = guesses[1][j]

SameGuessFor(parties) ==
    SimulatedState =>
        \A o \in Outcomes(num_people) :
            LET G2 == guesses_of(o, num_people)
            IN  \A i \in parties : AgreeFor(i, o[1], G2) => G2[i] = guesses[1][i]

\* C4 as stated: for every party i, two runs that agree on the colours at
\* indices > i and on the guesses at indices < i give party i the same guess
C4_VisibilityAllParties == SameGuessFor(0..(num_people - 1))

\* C4 amended: the same for every party i >= 1; party 0's guess is the
\* random draw, which no Configuration value determines
C4_Visibility ==
    /\ SameGuessFor(1..(num_people - 1))
    /\ SimulatedState =>
          \A hc \in Configurations(num_people) :
              {guesses_of(o, num_people)[0] :
                   o \in {x \in Outcomes(num_people) : x[1] = hc}} = Bits

\* a run whose party i >= 1 has, in an agreeing second run, the other colour
C4_Witness ==
    /\ SimulatedState
    /\ num_people >= 3
    /\ \E o \in Outcomes(num_people), i \in 1..(num_people - 1) :
          /\ AgreeFor(i, o[1], guesses_of(o, num_people))
          /\ o[1][i] # hair_colors[1][i]
          /\ o[1][0] # hair_colors[1][0]

\* C5: for N >= 1 party 0's guess is free of the Configuration: both values
\* occur with every Configuration, party 0 is correct in exactly half of the
\* outcomes, and for N = 1 exactly half of the outcomes are all correct
C5_FirstGuessFree ==
    num_people >= 1 =>
        LET n == num_people
            total == Cardinality(Outcomes(n))
        IN  /\ \A hc \in Configurations(n), b \in Bits :
                  \E o \in Outcomes(n) : o[1] = hc /\ guesses_of(o, n)[0] = b
            /\ 2 * Cardinality({o \in Outcomes(n) : results_of(o, n)[0]}) = total
            /\ n = 1 => 2 * Cardinality(OutcomesWith(1, 1)) = total
            /\ SimulatedState => guesses[1][0] \in Bits

\* a one-party run whose guess is not the parity party 0 sees, and is right
C5_Witness ==
    /\ SimulatedState
    /\ num_people = 1
    /\ guesses[1][0] = 1
    /\ visible_parity(hair_colors[1], 1, 0) = 0
    /\ results[1][0]

\* --------------------------------------------- properties: BaseValidator
\* the rows analyzer a received from the current run_simulation call
rows_before(a) == Len(df_at_start[a])
rows_added(a) == Len(results_df[a]) - rows_before(a)

\* the rows added to a by the current run carry job_id 0, 1, 2, ... in order
InJobOrder(a) ==
    /\ SubSeq(results_df[a], 1, rows_before(a)) = df_at_start[a]
    /\ \A j \in 1..rows_added(a) : results_df[a][rows_before(a) + j].job_id = j - 1

\* C6: for every num_jobs J >= 0 a completed run_simulation has called
\* _simulate exactly J times and has handed each job once, in order with
\* job_id 0..J-1, to every registered analyzer (J more rows each)
C6_ExactlyJJobs ==
    hpc = "returned" =>
        /\ sim_calls = num_jobs
        /\ \A a \in registered : rows_added(a) = num_jobs /\ InJobOrder(a)

\* C7: when the k-th _simulate call of a run raises, no further call is made
\* and every registered analyzer holds exactly the k-1 jobs handed out before
C7_PartialKept ==
    hpc = "raised" =>
        /\ herr = "SourceFailure"
        /\ sim_calls = job_id + 1
        /\ \A a \in registered : rows_added(a) = sim_calls - 1 /\ InJobOrder(a)

\* the third call of a run of three jobs raised, with two analyzers registered
C7_Witness ==
    /\ hpc = "raised"
    /\ sim_calls = 3
    /\ num_jobs >= 3
    /\ Len(analyzers) = 2
    /\ \A a \in registered : rows_added(a) = 2

\* C8: a failure of the trial source reaches the caller together with the
\* partial results of the jobs completed before it
C8_FailureCarriesPartial ==
    hpc = "raised" => herr = "SourceFailure" /\ ret # None

\* ----------------------------------------------- properties: SuccessRate
\* the last call was analyze() on the stand-alone analyzer and it returned
Analyzed == hpc = "idle" /\ ret # None

\* the shots of a job the named predicate counts as successes
accepted_shots(counts, criteria) ==
    IF criteria = "default" THEN get(counts, "0") ELSE get(counts, "1")

\* rate is the quotient accepted / total of the job (total > 0), cross-multiplied
IsRateOf(rate, counts, criteria) ==
    rate[1] * total_of(counts) = accepted_shots(counts, criteria) * rate[2]

\* C9: analyze() scores every stored job with the predicate installed at the
\* time of the call, also the jobs ingested under another predicate, and no
\* job is ingested again for it
C9_LateBinding ==
    Analyzed =>
        LET df == results_df[Standalone]
            rates == ret[1].success_rates
        IN  /\ Len(rates) = Len(df)
            /\ Len(ingest_criteria[Standalone]) = Len(df)
            /\ \A j \in 1..Len(df) :
                  IsRateOf(rates[j], df[j].counts, success_criteria[Standalone])

\* a job ingested under one predicate is scored under the one installed later,
\* and the two predicates give the job different rates
C9_Witness ==
    /\ Analyzed
    /\ \E j \in 1..Len(results_df[Standalone]) :
          /\ ingest_criteria[Standalone][j] # success_criteria[Standalone]
          /\ total_of(results_df[Standalone][j].counts) > 0
          /\ ~IsRateOf(ret[1].success_rates[j], results_df[Standalone][j].counts,
                       ingest_criteria[Standalone][j])

\* sum(counts.values()) of a job, or 1 when the job has no shots
denominator(counts) == IF total_of(counts) > 0 THEN total_of(counts) ELSE 1

RECURSIVE ProdDen(_, _)
ProdDen(df, n) == IF n = 0 THEN 1 ELSE denominator(df[n].counts) * ProdDen(df, n - 1)

\* the sum of the jobs' rates, times the product of all denominators
RECURSIVE ScaledSum(_, _, _, _)
ScaledSum(df, criteria, n, scale) ==
    IF n = 0 THEN 0
    ELSE accepted_shots(df[n].counts, criteria) * (scale \div denominator(df[n].counts))
         + ScaledSum(df, criteria, n - 1, scale)

\* C10: analyze() gives one rate per ingested job, accepted counts over all
\* counts, reports the min, max and mean of that series, and total_trials is
\* the number of jobs
C10_Report ==
    Analyzed =>
        LET df == results_df[Standalone]
            criteria == success_criteria[Standalone]
            r == ret[1]
            n == Len(df)
            scale == ProdDen(df, n)
        IN  /\ Len(r.success_rates) = n
            /\ \A j \in 1..n : IsRateOf(r.success_rates[j], df[j].counts, criteria)
            /\ \E j \in 1..n : r.min_success_rate = r.success_rates[j]
            /\ \E j \in 1..n : r.max_success_rate = r.success_rates[j]
            /\ \A j \in 1..n :
                  /\ RatLeq(r.min_success_rate, r.success_rates[j])
                  /\ RatLeq(r.success_rates[j], r.max_success_rate)
            /\ r.mean_success_rate[1] * n * scale =
                  r.mean_success_rate[2] * ScaledSum(df, criteria, n, scale)
            /\ r.total_trials = n

\* three jobs with different rates, and more shots than jobs
C10_Witness ==
    /\ Analyzed
    /\ Len(results_df[Standalone]) = 3
    /\ ret[1].min_success_rate # ret[1].max_success_rate
    /\ ret[1].mean_success_rate \notin {ret[1].min_success_rate, ret[1].max_success_rate}
    /\ \E j \in 1..3 : total_of(results_df[Standalone][j].counts) > 1

\* ------------------------------------ properties: the cumulative table
\* the table of the j-th job (j = 1, 2, ...) of the current run, as analyzer a holds it
job_counts(a, j) == results_df[a][rows_before(a) + j].counts

\* C11: after a completed run of J >= 1 jobs the returned cumulative table has
\* the union of the jobs' keys, each key mapped to the sum of its counts over
\* the J jobs, and the table sums to J * shots_per_job (timing_info total_shots)
C11_Cumulative ==
    (hpc = "returned" /\ num_jobs >= 1) =>
        LET cumulative == ret[1].results_metrics.counts
        IN  /\ total_of(cumulative) = ret[1].timing_info.total_shots
            /\ total_of(cumulative) = num_jobs * shots_per_job
            /\ \A a \in registered :
                  /\ rows_added(a) = num_jobs
                  /\ DOMAIN cumulative =
                        UNION {DOMAIN job_counts(a, j) : j \in 1..num_jobs}
                  /\ \A k \in DOMAIN cumulative :
                        cumulative[k] =
                           SumOver([j \in 1..num_jobs |-> get(job_counts(a, j), k)],
                                   1..num_jobs)

\* three jobs with different key sets were merged and an analyzer recorded them
C11_Witness ==
    /\ hpc = "returned"
    /\ num_jobs = 3
    /\ registered # {}
    /\ \A a \in registered : rows_added(a) = 3
    /\ \E a \in registered :
          /\ DOMAIN job_counts(a, 1) # DOMAIN job_counts(a, 2)
          /\ DOMAIN job_counts(a, 3) = Keys
    /\ ret[1].results_metrics.counts["0"] # ret[1].results_metrics.counts["1"]

\* C12: the merge (union of keys, counts added, a missing key counting 0) is
\* commutative and associative, {a:3,b:5} merged with {a:2,c:1} is
\* {a:5,b:5,c:1}, and the order in which jobs are merged does not matter
C12_MergeLaws ==
    merge_xy # None =>
        LET X == merge_x
            Y == merge_y
            XY == merge_xy[1]
        IN  /\ DOMAIN XY = DOMAIN X \cup DOMAIN Y
            /\ \A k \in DOMAIN XY : XY[k] = get(X, k) + get(Y, k)
            /\ XY = merge(Y, X)
            /\ \A Z \in MergeInputs :
                  /\ merge(XY, Z) = merge(X, merge(Y, Z))
                  /\ merge(XY, Z) = merge(merge(X, Z), Y)
                  /\ merge(XY, Z) = merge(merge(Z, Y), X)
            /\ (X = ("a" :> 3 @@ "b" :> 5) /\ Y = ("a" :> 2 @@ "c" :> 1)) =>
                  XY = ("a" :> 5 @@ "b" :> 5 @@ "c" :> 1)

\* the merge of {a:3,b:5} with {a:2,c:1} has been computed
C12_Witness ==
    /\ merge_xy # None
    /\ merge_x = ("a" :> 3 @@ "b" :> 5)
    /\ merge_y = ("a" :> 2 @@ "c" :> 1)
    /\ merge_xy[1]["a"] = 5

\* the frequency tables the dict returned by run_simulation carries
returned_tables == {ret[1].results_metrics.counts}

\* C13: the result of a run of J >= 2 jobs contains the table of job 0 alone,
\* unaggregated, beside the cumulative table
C13_FirstJobReturned ==
    (hpc = "returned" /\ num_jobs >= 2) =>
        \A a \in registered : job_counts(a, 1) \in returned_tables

\* C14: a job's table is never changed once handed to the analyzers (later
\* merges leave every stored row as it was), and each analyzer's copy is a
\* dict of its own: no two analyzers refer to the same dict, and none refers
\* to the dict returned in the harness result.
C14_IndependentCopies ==
    hpc \in {"loop", "returned"} =>
        \A a \in registered :
            /\ SubSeq(results_df[a], 1, rows_before(a)) = df_at_start[a]
            /\ sim_obj \notin Range(counts_obj[a])
            /\ \A b \in registered \ {a} :
                  Range(counts_obj[a]) \cap Range(counts_obj[b]) = {}

\* C15: a job whose frequency table is empty or whose counts sum to zero is
\* rejected at add_results and leaves the history as it was, so no stored row
\* ever has a table without shots.
C15_EmptyTableRejected ==
    \A j \in 1..Len(results_df[Standalone]) :
        /\ results_df[Standalone][j].counts # <<>>
        /\ total_of(results_df[Standalone][j].counts) > 0

\* the stored history of the stand-alone analyzer
history == results_df[Standalone]

\* C16: analyze() fails with the empty-history error exactly when the history
\* is empty (nothing ingested since construction or since the last
\* clear_results()); clear_results() discards every stored job however many
\* there are, and the next ingest after it starts a history of length 1.
C16_EmptyHistory ==
    /\ [](herr = "ValueError" => history = <<>> /\ ret = None)
    /\ [](Analyzed => history # <<>>)
    /\ []((ENABLED analyze_empty(Standalone)) <=> history = <<>>)
    /\ [][Len(history') < Len(history) => history' = <<>>]_vars
    /\ [][(history = <<>> /\ history' # <<>>) => Len(history') = 1]_vars

\* analyze() has failed on a history that is empty although the analyzer is
\* no longer as constructed
C16_Witness ==
    /\ herr = "ValueError"
    /\ history = <<>>
    /\ success_criteria[Standalone] = "flip_coin"

\* analyze() has just returned on a history of exactly one job whose shots
\* all fall on keys the installed predicate accepts
OneJobAllTrue ==
    /\ Analyzed
    /\ Len(history) = 1
    /\ total_of(history[1].counts) > 0
    /\ accepted_shots(history[1].counts, success_criteria[Standalone])
           = total_of(history[1].counts)

\* C17 as stated: on one all-true job analyze() returns
\* mean = std = min = max = 1.0 and total_trials = 1.
C17_SingleJobStdOne ==
    OneJobAllTrue =>
        /\ ret[1].mean_success_rate = <<1, 1>>
        /\ ret[1].var_success_rate = <<1, 1>>
        /\ ret[1].min_success_rate = <<1, 1>>
        /\ ret[1].max_success_rate = <<1, 1>>
        /\ ret[1].total_trials = 1

\* C17: on one all-true job analyze() returns mean = min = max = 1.0,
\* std = 0 (a one-value series has no spread) and total_trials = 1.
C17_SingleJob ==
    OneJobAllTrue =>
        /\ ret[1].mean_success_rate = <<1, 1>>
        /\ ret[1].var_success_rate = <<0, 1>>
        /\ ret[1].min_success_rate = <<1, 1>>
        /\ ret[1].max_success_rate = <<1, 1>>
        /\ ret[1].success_rates = <<(<<1, 1>>)>>
        /\ ret[1].total_trials = 1

C17_Witness ==
    /\ OneJobAllTrue
    /\ total_of(history[1].counts) = MaxShots
    /\ success_criteria[Standalone] = "flip_coin"
    /\ ret[1].var_success_rate = <<0, 1>>

\* C18: the parity strategy on N = 0 parties is rejected at the call boundary
\* with InvalidParameter: it never gets as far as the incidental IndexError of
\* "self.guesses[0] = ..." and a rejected call has assigned no guesses.
C18_ZeroPartiesRejected ==
    num_people = 0 =>
        /\ err # "IndexError"
        /\ (err = "InvalidParameter" => guesses = None)

\* C19: a negative shot count is an error: run_multiple_simulations with
\* num_trials < 0 fails at once, it never runs zero trials and hands back
\* statistics.
C19_NegativeTrialsRejected ==
    num_trials < 0 => (stats = None /\ (epc = "ready" => err # "none"))

\* the trials counted so far, over all buckets
bucket_total == SumRange(correct_counts[1], 0, num_people)

\* a trial of the running call that draws the Configuration hc
trial_on(hc) == run_multiple_simulations_trial /\ hair_colors' = Some(hc)

\* C20: for T >= 1 run_multiple_simulations(T) performs exactly T trials, each
\* on a Configuration drawn anew after reset() (any Configuration can come
\* next, whatever the previous trial's colours), each trial increments exactly
\* one bucket by one, so the bucket counts sum to T and correct_distribution
\* sums to 1.
C20_ExactlyTTrials ==
    /\ []((epc = "running" /\ num_trials >= 1) =>
             (trial <= num_trials /\ bucket_total = trial))
    /\ []((epc = "running" /\ trial < num_trials /\ num_people >= 1) =>
             \A hc \in Configurations(num_people) : ENABLED trial_on(hc))
    /\ []((stats # None /\ num_trials >= 1) =>
             /\ trial = num_trials
             /\ bucket_total = num_trials
             /\ \A i \in 0..num_people :
                   stats[1].correct_distribution[i] = <<correct_counts[1][i], num_trials>>
             /\ SumRange([i \in 0..num_people |-> stats[1].correct_distribution[i][1]],
                         0, num_people) = num_trials)
    /\ [][(epc = "running" /\ trial' = trial + 1) =>
             \E b \in 0..num_people :
                 correct_counts'[1] = [correct_counts[1] EXCEPT ![b] = @ + 1]]_vars

\* a completed call with T = MaxTrials whose trials fell into different buckets
C20_Witness ==
    /\ stats # None
    /\ num_trials = MaxTrials
    /\ num_people >= 2
    /\ trial = num_trials
    /\ \E i \in 0..num_people : correct_counts[1][i] = 1

\* ------------------------------------------- properties: compare_results
\* the theoretical column of the distribution table, buckets 0..num_people
theoretical_probs == cmp_out[1].theoretical_probs

\* the buckets the theoretical distribution gives a non-zero probability
nonzero_buckets == {i \in 0..cmp_num_people : theoretical_probs[i] # <<0, 1>>}

\* the values C21 gives: N -> 1/2^(N-1), N-1 -> 1 - 1/2^(N-1), all else 0
TheoreticalValues ==
    LET n == cmp_num_people
    IN  /\ theoretical_probs[n][1] * 2 ^ (n - 1) = theoretical_probs[n][2]
        /\ RatAdd(theoretical_probs[n], theoretical_probs[n - 1]) = <<1, 1>>
        /\ \A i \in 0..(n - 2) : theoretical_probs[i] = <<0, 1>>
        /\ (n = 4 => theoretical_probs[4] = <<1, 8>> /\ theoretical_probs[3] = <<7, 8>>)

beyond_tolerance(all) ==
    RatLess(<<2, 100>>, RatAbs(RatSub(all, theoretical_max_success(cmp_num_people))))

\* C22: compare_results raises a deviation flag for an implementation whenever
\* its observed all-correct rate differs from 1/2^(N-1) by more than 2
\* percentage points, and raises none when the difference is within it.
C22_DeviationFlag ==
    cmp_out # None =>
        /\ (cmp_out[1].quantum \in {"underperforming", "warning"}) <=> beyond_tolerance(quantum_all)
        /\ (cmp_out[1].classical = "warning") <=> beyond_tolerance(classical_all)

\* ------------------------------------------- properties: BaseValidator II
\* a step that ends the running call between two jobs: no further _simulate
\* call is made and the caller gets the aggregate of the jobs completed
stops_between_jobs ==
    /\ Next
    /\ hpc' \in {"returned", "raised"}
    /\ sim_calls' = sim_calls
    /\ results_df' = results_df
    /\ ret' # None
    /\ ret'[1].results_metrics.counts = sim_results[1]

\* C23: run_simulation can be cancelled from outside between jobs: whenever a
\* job has completed and another is due, the run may stop there, starting no
\* further job and returning the partial aggregate of the completed jobs.
C23_CancelBetweenJobs ==
    (hpc = "loop" /\ more_jobs) => ENABLED stops_between_jobs

\* ------------------------------ properties: the documented parity strategy
\* the parties whose guess in g is their own colour in hc
psa_correct(g, hc, n) == {i \in 0..(n - 1) : g[i] = hc[i]}

\* the Configurations of n parties on which party 0's announced parity is
\* its own colour
first_correct_configurations(n) ==
    {hc \in [0..(n - 1) -> {"0", "1"}] : psa_parity_guesses(hc, n)[0] = hc[0]}

\* C24: in the documented parity strategy (party 0 announces the parity of
\* the colours of parties 1..N-1), for every N >= 2 and every Configuration
\* each party 1..N-1 guesses its own colour, the number correct is N-1 or N,
\* and party 0 is correct in exactly half of all Configurations.
C24_DocumentedStrategy ==
    LET n == q_num_people
    IN  /\ (psa_guesses # None /\ n >= 2) =>
              /\ int_of(psa_guesses[1][0]) = xor_chars(0, binary_colors, 1, n - 1)
              /\ \A i \in 1..(n - 1) : psa_guesses[1][i] = binary_colors[i]
              /\ Cardinality(psa_correct(psa_guesses[1], binary_colors, n)) \in {n - 1, n}
              /\ 2 * Cardinality(first_correct_configurations(n)) = 2 ^ n
        /\ explained # None =>
              /\ \A i \in 1..3 : explained[1].guesses[i] = int_of(binary_colors[i])
              /\ explained[1].correct_count \in {3, 4}
              /\ (explained[1].correct_count = 4) <=>
                    (explained[1].guesses[0] = int_of(binary_colors[0]))

\* both walk-throughs done on a Configuration where only party 0 is wrong
C24_Witness ==
    /\ psa_guesses # None
    /\ explained # None
    /\ q_num_people = 4
    /\ hair_colors_list = (0 :> "orange" @@ 1 :> "orange" @@ 2 :> "indigo" @@ 3 :> "orange")
    /\ psa_correct(psa_guesses[1], binary_colors, 4) = {1, 2, 3}
    /\ explained[1].correct_count = 3

\* ---------------------------------------- properties: HairColorEnigma II
\* XOR of the Configuration values at indices > i
colours_behind(i) == XorRange(0, hair_colors[1], i + 1, num_people - 1)

\* XOR of the guesses at indices lo..i-1
guesses_before(lo, i) == XorRange(0, guesses[1], lo, i - 1)

\* C25 as stated: guess[i] = (XOR of the colours at indices > i) XOR (XOR of
\* the guesses at indices 0..i-1) XOR (party 0's guess), for each i >= 1.
C25_GuessFormulaFromZero ==
    SimulatedState =>
        \A i \in 1..(num_people - 1) :
            guesses[1][i] = Xor(Xor(colours_behind(i), guesses_before(0, i)), guesses[1][0])

\* C25: guess[i] = (XOR of the colours at indices > i) XOR (XOR of the
\* guesses of parties 1..i-1) XOR (party 0's guess), for each i >= 1: party
\* 0's guess enters once.
C25_GuessFormula ==
    SimulatedState =>
        \A i \in 1..(num_people - 1) :
            guesses[1][i] = Xor(Xor(colours_behind(i), guesses_before(1, i)), guesses[1][0])

\* a run of three parties in which party 0 says 1 and both formulas differ
C25_Witness ==
    /\ SimulatedState
    /\ num_people = 3
    /\ guesses[1][0] = 1
    /\ guesses[1][1] # Xor(colours_behind(1), 0)
    /\ hair_colors[1] = (0 :> 0 @@ 1 :> 1 @@ 2 :> 0)

\* XOR of the colours of parties 1..N-1 in the Configuration hc
others_parity(hc, n) == XorRange(0, hc, 1, n - 1)

C27_OthersCorrectInCircuit ==
    measured # None =>
        LET n == q_num_people
        IN  /\ \A i \in 1..(n - 1) :
                  state_guesses(measured[1], n)[i] = state_hair_colors(measured[1], n)[i]
            /\ state_correct_count(measured[1], n) \in {n - 1, n}

\* ------------------------------------------ properties: BaseValidator III
\* what run_analysis would hand back for analyzer a now
report_of(a) == analysis_of(results_df[a], success_criteria[a])

\* C28: run_simulation never clears analyzer history: when a run of J2 >= 1
\* jobs completes on a validator whose analyzers already hold the J1 >= 1
\* records of an earlier run, every such analyzer holds J1 + J2 records, the
\* earlier ones untouched, analyze() reports total_trials = J1 + J2 with one
\* rate per job of both runs, and the returned cumulative table covers only
\* the J2 jobs of this run.
C28_HistoryAcrossRuns ==
    (hpc = "returned" /\ num_jobs >= 1) =>
        \A a \in registered :
            LET J1 == rows_before(a)
                J2 == num_jobs
            IN  /\ Len(results_df[a]) = J1 + J2
                /\ SubSeq(results_df[a], 1, J1) = df_at_start[a]
                /\ report_of(a).total_trials = J1 + J2
                /\ Len(report_of(a).success_rates) = J1 + J2
                /\ \A j \in 1..(J1 + J2) :
                      IsRateOf(report_of(a).success_rates[j], results_df[a][j].counts,
                               success_criteria[a])
                /\ total_of(ret[1].results_metrics.counts) = J2 * shots_per_job
                /\ \A k \in Keys :
                      get(ret[1].results_metrics.counts, k) =
                          SumOver([j \in 1..J2 |-> get(results_df[a][J1 + j].counts, k)], 1..J2)

\* a second run of two jobs has completed after a first run of one job
C28_Witness ==
    /\ hpc = "returned"
    /\ num_jobs = 2
    /\ registered # {}
    /\ \A a \in registered :
          /\ rows_before(a) = 1
          /\ Len(results_df[a]) = 3
          /\ results_df[a][1].job_id = 0 /\ results_df[a][2].job_id = 0
          /\ results_df[a][3].job_id = 1

\* ------------------------------------------ properties: run_on_ibm
\* C29: run_on_ibm always returns a result whose status is completed, error
\* or pending; the registered analyzers receive exactly one record, only
\* after a poll has observed DONE and only when the status returned is
\* completed; when the status returned is error or pending (a status other
\* than DONE, RUNNING or QUEUED, the 600-second window elapsed, or a step
\* raised) the analyzer histories are as they were before the call.
C29_IbmOutcome ==
    /\ ibm_pc \in {"submit", "polling", "done"} => results_df = ibm_df_at_start
    /\ ibm_pc = "returned" =>
          /\ ibm_ret # None
          /\ ibm_ret[1].status \in {"completed", "error", "pending"}
          /\ ibm_ret[1].status = "completed" =>
                \A a \in registered :
                    results_df[a] = Append(ibm_df_at_start[a], [counts |-> ibm_ret[1].counts])
          /\ ibm_ret[1].status \in {"error", "pending"} => results_df = ibm_df_at_start

\* the buckets 0..n of a distribution, added up
RECURSIVE buckets_sum(_, _)
buckets_sum(d, k) == IF k < 0 THEN <<0, 1>> ELSE RatAdd(buckets_sum(d, k - 1), d[k])

\* C30: on a table with a positive total the rate of the SuccessRate analyzer
\* under the success_criteria of QuantumHairColorEnigma is bucket N of
\* analyze_correct_distribution and the buckets 0..N add up to 1; on a table
\* with total 0 every bucket and every per-person rate is 0, and each analysis
\* returns a value
C30_RateIsTopBucket ==
    LET n == q_num_people
        total == table_total(counts_dict)
    IN  /\ (total > 0 /\ distribution # None)
            => /\ DOMAIN distribution[1] = 0..n
               /\ buckets_sum(distribution[1], n) = <<1, 1>>
               /\ success_rate # None => success_rate[1] = distribution[1][n]
        /\ (total = 0 /\ distribution # None)
            => \A k \in 0..n : distribution[1][k] = <<0, 1>>
        /\ (total = 0 /\ per_person # None)
            => /\ \A i \in 0..(n - 1) :
                    /\ per_person[1].per_person_correct[i] = 0
                    /\ per_person[1].per_person_correct_pct[i] = <<0, 1>>
               /\ per_person[1].first_person_correct_pct = <<0, 1>>
               /\ per_person[1].others_correct_pct = <<0, 1>>
        /\ (total = 0 /\ success_rate # None) => success_rate[1] = <<0, 1>>
        /\ success_rate = None => ENABLED success_rate_analyze
        /\ distribution = None => ENABLED analyze_correct_distribution
        /\ per_person = None => ENABLED analyze_per_person_success

\* a table with a positive total, part of it all correct and part of it not,
\* scored by the analyzer and by both analyses
C30_Witness ==
    /\ q_num_people = 2
    /\ table_total(counts_dict) > 1
    /\ success_rate # None /\ distribution # None /\ per_person # None
    /\ success_rate[1] = distribution[1][2]
    /\ success_rate[1] \notin {<<0, 1>>, <<1, 1>>}

====
